---- MODULE Spec2Model ----
(***************************************************************************)
(* Model of the boot loader's FAT reader (src/src/bootloader/file.c), its  *)
(* assertion macro (the two debug.h of the repository), the boot sequence  *)
(* (entry.c) and the text-mode printer (src/bootloader/print.c).           *)
(*                                                                         *)
(* Bytes and characters are integers (their ASCII / raw value).  A path is *)
(* the sequence of its characters before the terminating '\0'.  32-bit     *)
(* unsigned values of get_data_offset are pairs of 16-bit halves, so that  *)
(* the wrap-around of uint32_t arithmetic is computed exactly.             *)
(***************************************************************************)
EXTENDS Integers, Sequences, FiniteSets, TLC

VARIABLES
    debug_h,        \* which debug.h of the repository defines ASSERT
    sig,            \* the bytes at 0x1FE and 0x1FF of the partition image
    bpb,            \* the BPB fields of the partition image
    fat,            \* the FAT table: cluster index -> 16-bit value
    dir,            \* the memory at the root directory: slot -> DirEntry
    path,           \* the path handed to load_file
    pc,             \* position of the boot sequence
    cluster_index,  \* read_raw_data: current cluster index
    data,           \* read_raw_data: source pointer, as an offset in the image
    buffer,         \* read_raw_data: destination pointer, as an offset from addr
    read_size,      \* read_raw_data: bytes counted as read
    size,           \* read_raw_data: bytes requested (the entry's file_size)
    cluster_value,  \* read_raw_data: the FAT value read last
    dest,           \* the memory at addr: offset -> image offset copied there
    found,          \* load_file: the slot search_file returned (0: null)
    inspected,      \* the directory slots search_file has read
    ret,            \* load_file's return value
    halt_at,        \* the assertion the processor spins in
    msg,            \* whether error_message was called by that assertion
    g_i,            \* the cluster index i handed to get_data_offset
    g_first,        \* the value of get_data_offset(bpb, i)
    g_second,       \* the value of get_data_offset(bpb, i + 1)
    col,            \* screen_buffer.col
    row,            \* screen_buffer.row
    cells,          \* the indices of screen_buffer.buffer the last call wrote
    rows_seen       \* last call: <<row before the scroll test, row after it>>

fsvars == <<debug_h, sig, bpb, fat, dir, path, pc, cluster_index, data, buffer,
            read_size, size, cluster_value, dest, found, inspected, ret,
            halt_at, msg>>
geomvars == <<g_i, g_first, g_second>>
screenvars == <<col, row, cells, rows_seen>>
vars == <<fsvars, geomvars, screenvars>>

----------------------------------------------------------------------------
(* Program constants *)

BAD_CLUSTER == 65527
END_OF_CLUSTER_CHAIN == 65528
ENTRY_EMPTY == 0
ENTRY_DELETED == 229
ATTR_LONG_FILENAME == 15
MIN_CLUSTER_INDEX == 2
MAX_CLUSTER_INDEX == 65535
NAME_LEN == 8
EXT_LEN == 3
DIR_ENTRY_SIZE == 32
NUL == 0
SPACE == 32
DOT == 46
SLASH == 47
SIG_LO == 85
SIG_HI == 170
W16 == 65536
W8 == 256
LINE_SIZE == 160
COLUMNS == 80
ROWS == 25
NEWLINE == 10
BACKSPACE == 8
PERCENT == 37

SrcDebugH == "src/src/bootloader/debug.h"
TopDebugH == "src/bootloader/debug.h"

----------------------------------------------------------------------------
(* Bounds of the model *)

MaxSize == 4
MaxStart == 3
MaxEntries == 2
MaxNameChars == 9
MaxExtChars == 4
MaxFormat == 2

----------------------------------------------------------------------------
(* uint32_t arithmetic on pairs <<high 16 bits, low 16 bits>> *)

U32(n) == <<(n \div W16) % W16, n % W16>>

Add32(x, y) ==
    LET lo == x[2] + y[2]
    IN  <<(x[1] + y[1] + (lo \div W16)) % W16, lo % W16>>

Sub32(x, y) ==
    LET lo == x[2] - y[2] + W16
        borrow == IF lo < W16 THEN 1 ELSE 0
    IN  <<(x[1] - y[1] - borrow + 2 * W16) % W16, lo % W16>>

\* a * b for 16-bit a and b, as a 32-bit value
Mul16(a, b) ==
    LET t1 == a * (b % W8)
        t2 == a * (b \div W8)
    IN  Add32(<<t1 \div W16, t1 % W16>>,
              <<(t2 \div W8) % W16, (t2 % W8) * W8>>)

\* x * y modulo 2^32
Mul32(x, y) ==
    LET low == Mul16(x[2], y[2])
        cross == Add32(Mul16(x[1], y[2]), Mul16(x[2], y[1]))
    IN  Add32(low, <<cross[2], 0>>)

----------------------------------------------------------------------------
(* debug.h: ASSERT(TEST, MSG) *)

\* whether the processor spins in while(1){} after ASSERT(test, ...)
AssertHalts(test) ==
    IF debug_h = SrcDebugH
    THEN TRUE      \* if (!(TEST)) error_message(...); while(1){}
    ELSE ~test     \* if (!(TEST)) { ERROR_MESSAGE(...) HALT }

\* whether ASSERT(test, ...) prints its message
AssertPrints(test) == ~test

\* VALIDATE_CLUSTER_INDEX: the tested condition
ValidClusterIndex(ci) == ci >= MIN_CLUSTER_INDEX /\ ci <= MAX_CLUSTER_INDEX

----------------------------------------------------------------------------
(* Geometry *)

get_cluster_size(b) == Mul32(U32(b.bytes_per_sector), U32(b.sectors_per_cluster))

\* the value get_data_offset returns once its assertion let it pass
get_data_offset(b, ci) ==
    LET cluster_size == get_cluster_size(b)
        cluster_offset == Mul32(Sub32(U32(ci), U32(2)), cluster_size)
        reserved_size == Mul32(U32(b.reserved_sector_count), U32(b.bytes_per_sector))
        fat_size == Mul32(Mul32(U32(b.fat_count), U32(b.sectors_per_fat)),
                          U32(b.bytes_per_sector))
        root_dir_size == Mul32(U32(b.root_entry_count), U32(DIR_ENTRY_SIZE))
        data_offset == Add32(Add32(reserved_size, fat_size), root_dir_size)
    IN  Add32(data_offset, cluster_offset)

\* a 32-bit value that fits the model's integers, as an integer
ToInt(x) == x[1] * W16 + x[2]

----------------------------------------------------------------------------
(* Directory scanner *)

Spaces(n) == [k \in 1..n |-> SPACE]

\* path[i] of the C string (i counts from 0)
At(p, i) == IF i < Len(p) THEN p[i + 1] ELSE NUL

RECURSIVE NameLoop(_, _, _)
NameLoop(p, i, name) ==
    IF i < NAME_LEN /\ At(p, i) # DOT /\ At(p, i) # NUL
    THEN IF At(p, i) = SLASH
         THEN [fail |-> TRUE, i |-> i, buf |-> name]
         ELSE NameLoop(p, i + 1, [name EXCEPT ![i + 1] = At(p, i)])
    ELSE [fail |-> FALSE, i |-> i, buf |-> name]

RECURSIVE ExtLoop(_, _, _, _)
ExtLoop(p, i, j, ext) ==
    IF j < EXT_LEN /\ At(p, i) # NUL
    THEN IF At(p, i) = SLASH
         THEN [fail |-> TRUE, i |-> i, buf |-> ext]
         ELSE ExtLoop(p, i + 1, j + 1, [ext EXCEPT ![j + 1] = At(p, i)])
    ELSE [fail |-> FALSE, i |-> i, buf |-> ext]

\* split_path without the final test of path[i] against '\0'
split_path_unchecked(p) ==
    LET n == NameLoop(p, 0, Spaces(NAME_LEN))
        e == IF ~n.fail /\ At(p, n.i) = DOT
             THEN ExtLoop(p, n.i + 1, 0, Spaces(EXT_LEN))
             ELSE [fail |-> n.fail, i |-> n.i, buf |-> Spaces(EXT_LEN)]
    IN  [ok |-> ~n.fail /\ ~e.fail, name |-> n.buf, ext |-> e.buf]

split_path(p) ==
    LET n == NameLoop(p, 0, Spaces(NAME_LEN))
        e == IF ~n.fail /\ At(p, n.i) = DOT
             THEN ExtLoop(p, n.i + 1, 0, Spaces(EXT_LEN))
             ELSE [fail |-> n.fail, i |-> n.i, buf |-> Spaces(EXT_LEN)]
    IN  [ok |-> ~n.fail /\ ~e.fail /\ At(p, e.i) = NUL,
         name |-> n.buf, ext |-> e.buf]

is_file_name_equal(entry, name, ext) == entry.name = name /\ entry.ext = ext

\* the skip test without the long-filename case
EntrySkippedNoLfn(entry) ==
    \/ entry.name[1] = ENTRY_EMPTY
    \/ entry.name[1] = ENTRY_DELETED

\* the entries search_file steps over without comparing
EntrySkipped(entry) ==
    \/ entry.name[1] = ENTRY_EMPTY
    \/ entry.name[1] = ENTRY_DELETED
    \/ entry.attributes = ATTR_LONG_FILENAME

\* the loop of search_file from slot i (slots count from 1; 0 is the null pointer)
RECURSIVE ScanFrom(_, _, _, _, _)
ScanFrom(i, max_i, name, ext, seen) ==
    IF i > max_i
    THEN [entry |-> 0, seen |-> seen]
    ELSE IF ~EntrySkipped(dir[i]) /\ is_file_name_equal(dir[i], name, ext)
         THEN [entry |-> i, seen |-> seen \cup {i}]
         ELSE ScanFrom(i + 1, max_i, name, ext, seen \cup {i})

search_file(p) ==
    LET s == split_path(p)
    IN  IF s.ok
        THEN ScanFrom(1, bpb.root_entry_count, s.name, s.ext, {})
        ELSE [entry |-> 0, seen |-> {}]

----------------------------------------------------------------------------
(* The partition image and the destination memory *)

\* the byte pattern of the image: every byte holds its own offset
ImageByte(offset) == offset

\* memmove(addr + dst, image + src, n), on the destination memory
Memmove(mem, dst, src, n) ==
    [k \in DOMAIN mem |->
        IF k >= dst /\ k < dst + n THEN ImageByte(src + (k - dst)) ELSE mem[k]]

\* the mark of a destination byte no memmove has written
Untouched == 0 - 1

\* the signature test with && for ||
SignatureInvalidBoth(p) == p[1] # SIG_LO /\ p[2] # SIG_HI

SignatureInvalid(p) == p[1] # SIG_LO \/ p[2] # SIG_HI

\* the bad-cluster test with > for ==
IsBadClusterAbove(v) == v > BAD_CLUSTER

IsBadCluster(v) == v = BAD_CLUSTER

IsEndOfChain(v) == v >= END_OF_CLUSTER_CHAIN

ClusterSize == ToInt(get_cluster_size(bpb))

\* the remainder cut to one cluster
LeftToReadInCluster(sz, rd) == IF sz - rd > ClusterSize THEN ClusterSize ELSE sz - rd

LeftToRead(sz, rd) == sz - rd

Halt(where, test) ==
    /\ pc' = "halted"
    /\ halt_at' = where
    /\ msg' = AssertPrints(test)

----------------------------------------------------------------------------
(* The boot sequence: entry_main / load_kernel *)

\* init_fs: the signature is wrong, ASSERT(0, "Invalid filesystem signature")
InitFsHalt ==
    /\ pc = "init_fs"
    /\ SignatureInvalid(sig)
    /\ Halt("init_fs", FALSE)
    /\ UNCHANGED <<debug_h, sig, bpb, fat, dir, path, cluster_index, data, buffer,
                   read_size, size, cluster_value, dest, found, inspected, ret>>
    /\ UNCHANGED <<geomvars, screenvars>>

\* init_fs returns; entry calls load_file
InitFsReturn ==
    /\ pc = "init_fs"
    /\ ~SignatureInvalid(sig)
    /\ pc' = "load_file"
    /\ UNCHANGED <<debug_h, sig, bpb, fat, dir, path, cluster_index, data, buffer,
                   read_size, size, cluster_value, dest, found, inspected, ret,
                   halt_at, msg>>
    /\ UNCHANGED <<geomvars, screenvars>>

\* load_file: search_file returns null, load_file returns false
LoadFileNotFound ==
    /\ pc = "load_file"
    /\ search_file(path).entry = 0
    /\ inspected' = search_file(path).seen
    /\ found' = 0
    /\ ret' = FALSE
    /\ pc' = "entry_check"
    /\ UNCHANGED <<debug_h, sig, bpb, fat, dir, path, cluster_index, data, buffer,
                   read_size, size, cluster_value, dest, halt_at, msg>>
    /\ UNCHANGED <<geomvars, screenvars>>

\* load_file: search_file returns an entry, read_raw_data is called with its fields
LoadFileFound ==
    /\ pc = "load_file"
    /\ search_file(path).entry # 0
    /\ inspected' = search_file(path).seen
    /\ found' = search_file(path).entry
    /\ size' = dir[found'].file_size
    /\ cluster_index' = dir[found'].cluster_index
    /\ pc' = "read_raw_data"
    /\ UNCHANGED <<debug_h, sig, bpb, fat, dir, path, data, buffer, read_size,
                   cluster_value, dest, ret, halt_at, msg>>
    /\ UNCHANGED <<geomvars, screenvars>>

\* read_raw_data, lines 171-177: the processor spins in one of the two assertions
ReadEnterHalt ==
    /\ pc = "read_raw_data"
    /\ AssertHalts(ValidClusterIndex(cluster_index))
    /\ Halt("read_raw_data", ValidClusterIndex(cluster_index))
    /\ UNCHANGED <<debug_h, sig, bpb, fat, dir, path, cluster_index, data, buffer,
                   read_size, size, cluster_value, dest, found, inspected, ret>>
    /\ UNCHANGED <<geomvars, screenvars>>

\* read_raw_data, lines 171-177: both assertions pass
ReadEnter ==
    /\ pc = "read_raw_data"
    /\ ~AssertHalts(ValidClusterIndex(cluster_index))
    /\ data' = ToInt(get_data_offset(bpb, cluster_index))
    /\ buffer' = 0
    /\ read_size' = 0
    /\ pc' = "read_loop"
    /\ UNCHANGED <<debug_h, sig, bpb, fat, dir, path, cluster_index, size,
                   cluster_value, dest, found, inspected, ret, halt_at, msg>>
    /\ UNCHANGED <<geomvars, screenvars>>

\* the loop condition fails: return read_size
ReadLoopExit ==
    /\ pc = "read_loop"
    /\ ~(read_size < size)
    /\ pc' = "read_ret"
    /\ UNCHANGED <<debug_h, sig, bpb, fat, dir, path, cluster_index, data, buffer,
                   read_size, size, cluster_value, dest, found, inspected, ret,
                   halt_at, msg>>
    /\ UNCHANGED <<geomvars, screenvars>>

\* get_cluster_value: the processor spins in VALIDATE_CLUSTER_INDEX
ReadIndexHalt ==
    /\ pc = "read_loop"
    /\ read_size < size
    /\ AssertHalts(ValidClusterIndex(cluster_index))
    /\ Halt("get_cluster_value", ValidClusterIndex(cluster_index))
    /\ UNCHANGED <<debug_h, sig, bpb, fat, dir, path, cluster_index, data, buffer,
                   read_size, size, cluster_value, dest, found, inspected, ret>>
    /\ UNCHANGED <<geomvars, screenvars>>

\* the FAT value is the bad-cluster marker: ASSERT(0, "Bad cluster")
ReadBadCluster ==
    /\ pc = "read_loop"
    /\ read_size < size
    /\ ~AssertHalts(ValidClusterIndex(cluster_index))
    /\ IsBadCluster(fat[cluster_index])
    /\ cluster_value' = fat[cluster_index]
    /\ Halt("bad_cluster", FALSE)
    /\ UNCHANGED <<debug_h, sig, bpb, fat, dir, path, cluster_index, data, buffer,
                   read_size, size, dest, found, inspected, ret>>
    /\ UNCHANGED <<geomvars, screenvars>>

\* the FAT value ends the chain: copy what is left and break
ReadEndOfChain ==
    /\ pc = "read_loop"
    /\ read_size < size
    /\ ~AssertHalts(ValidClusterIndex(cluster_index))
    /\ ~IsBadCluster(fat[cluster_index])
    /\ IsEndOfChain(fat[cluster_index])
    /\ cluster_value' = fat[cluster_index]
    /\ dest' = Memmove(dest, buffer, data, LeftToRead(size, read_size))
    /\ read_size' = read_size + LeftToRead(size, read_size)
    /\ pc' = "read_ret"
    /\ UNCHANGED <<debug_h, sig, bpb, fat, dir, path, cluster_index, data, buffer,
                   size, found, inspected, ret, halt_at, msg>>
    /\ UNCHANGED <<geomvars, screenvars>>

\* any other FAT value: copy a cluster and step to the next cluster index
ReadFullCluster ==
    /\ pc = "read_loop"
    /\ read_size < size
    /\ ~AssertHalts(ValidClusterIndex(cluster_index))
    /\ ~IsBadCluster(fat[cluster_index])
    /\ ~IsEndOfChain(fat[cluster_index])
    /\ cluster_value' = fat[cluster_index]
    /\ dest' = Memmove(dest, buffer, data, ClusterSize)
    /\ data' = data + ClusterSize
    /\ buffer' = buffer + ClusterSize
    /\ read_size' = read_size + ClusterSize
    /\ cluster_index' = cluster_index + 1
    /\ UNCHANGED <<debug_h, sig, bpb, fat, dir, path, pc, size, found, inspected,
                   ret, halt_at, msg>>
    /\ UNCHANGED <<geomvars, screenvars>>

\* load_file returns whether read_raw_data returned file_size
LoadFileReturn ==
    /\ pc = "read_ret"
    /\ ret' = (read_size = dir[found].file_size)
    /\ pc' = "entry_check"
    /\ UNCHANGED <<debug_h, sig, bpb, fat, dir, path, cluster_index, data, buffer,
                   read_size, size, cluster_value, dest, found, inspected,
                   halt_at, msg>>
    /\ UNCHANGED <<geomvars, screenvars>>

\* entry: load_file returned false, ASSERT(0, "Cannot find KERNEL.BIN")
EntryHalt ==
    /\ pc = "entry_check"
    /\ ~ret
    /\ Halt("entry", FALSE)
    /\ UNCHANGED <<debug_h, sig, bpb, fat, dir, path, cluster_index, data, buffer,
                   read_size, size, cluster_value, dest, found, inspected, ret>>
    /\ UNCHANGED <<geomvars, screenvars>>

\* entry: load_file returned true, the entry function returns
EntryReturn ==
    /\ pc = "entry_check"
    /\ ret
    /\ pc' = "booted"
    /\ UNCHANGED <<debug_h, sig, bpb, fat, dir, path, cluster_index, data, buffer,
                   read_size, size, cluster_value, dest, found, inspected, ret,
                   halt_at, msg>>
    /\ UNCHANGED <<geomvars, screenvars>>

Next ==
    \/ InitFsHalt
    \/ InitFsReturn
    \/ LoadFileNotFound
    \/ LoadFileFound
    \/ ReadEnterHalt
    \/ ReadEnter
    \/ ReadLoopExit
    \/ ReadIndexHalt
    \/ ReadBadCluster
    \/ ReadEndOfChain
    \/ ReadFullCluster
    \/ LoadFileReturn
    \/ EntryHalt
    \/ EntryReturn

----------------------------------------------------------------------------
(* Initial states of the boot sequence *)

\* "KERNEL.BIN", the path of entry.c
KERNEL_BIN == <<75, 69, 82, 78, 69, 76, 46, 66, 73, 78>>
KernelName == <<75, 69, 82, 78, 69, 76, SPACE, SPACE>>
KernelExt == <<66, 73, 78>>

DebugHeaders == {SrcDebugH, TopDebugH}

GoodSignature == <<SIG_LO, SIG_HI>>
BadSignatures == {<<SIG_LO, 0>>, <<0, SIG_HI>>, <<SIG_HI, SIG_LO>>}

BootBytesPerSector == 2

BootBPB(spc) ==
    [bytes_per_sector |-> BootBytesPerSector, sectors_per_cluster |-> spc,
     reserved_sector_count |-> 1, fat_count |-> 2, sectors_per_fat |-> 1,
     root_entry_count |-> 2]

BootBPBs == {BootBPB(1), BootBPB(2)}

\* the cluster indices whose FAT value the model holds
FatTop == MaxStart + ((MaxSize + BootBytesPerSector - 1) \div BootBytesPerSector) - 1
FatIndices == (MIN_CLUSTER_INDEX..FatTop) \cup {MAX_CLUSTER_INDEX}
FatLinks == {3, 4}
FatValues == FatLinks \cup {BAD_CLUSTER, END_OF_CLUSTER_CHAIN, 65535}
BootFats ==
    {f \in [FatIndices -> FatValues] :
        f[MAX_CLUSTER_INDEX] \in {3, END_OF_CLUSTER_CHAIN}}

Entry(name, ext, attributes, file_size, start) ==
    [name |-> name, ext |-> ext, attributes |-> attributes,
     file_size |-> file_size, cluster_index |-> start]

\* an entry of a plain file: the archive attribute, 0x20
File(name, ext, file_size, start) == Entry(name, ext, 32, file_size, start)

StartClusters == {1, MAX_CLUSTER_INDEX} \cup (MIN_CLUSTER_INDEX..MaxStart)
FileSizes == 0..MaxSize

\* slot 1 is a long-filename fragment with the kernel's name, slot 3 lies
\* beyond root_entry_count
BootDirs ==
    {<<Entry(KernelName, KernelExt, ATTR_LONG_FILENAME, 1, 2),
       File(KernelName, KernelExt, s, c),
       File(KernelName, KernelExt, 1, 2)>> :
        s \in FileSizes, c \in StartClusters}
    \cup
    {<<Entry(KernelName, KernelExt, ATTR_LONG_FILENAME, 1, 2),
       File([KernelName EXCEPT ![1] = ENTRY_DELETED], KernelExt, 1, 2),
       File(KernelName, KernelExt, 1, 2)>>}

DestOffsets == 0..(MaxSize + 2 * BootBytesPerSector - 1)

DefaultFat == [i \in FatIndices |-> END_OF_CLUSTER_CHAIN]

\* the state of the registers and of the destination before the boot sequence
Reset ==
    /\ pc = "init_fs"
    /\ cluster_index = 0
    /\ data = 0
    /\ buffer = 0
    /\ read_size = 0
    /\ size = 0
    /\ cluster_value = 0
    /\ dest = [k \in DestOffsets |-> Untouched]
    /\ found = 0
    /\ inspected = {}
    /\ ret = FALSE
    /\ halt_at = "none"
    /\ msg = FALSE

GeomIdle ==
    /\ g_i = 0
    /\ g_first = "none"
    /\ g_second = "none"

ScreenIdle ==
    /\ col = 0
    /\ row = 1
    /\ cells = {}
    /\ rows_seen = {}

\* paths around the limits of the 8.3 format: runs of 'A' with one character
\* replaced by 'B', '/' or (in the extension) '.'
Run(n, r, c) == [k \in 1..n |-> IF k = r THEN c ELSE 65]
NameParts ==
    UNION {{Run(n, r, c) : r \in {0, 1, n}, c \in {66, SLASH}} : n \in 0..MaxNameChars}
ExtParts ==
    UNION {{Run(m, r, c) : r \in {0, 1, m}, c \in {66, SLASH, DOT}} : m \in 0..MaxExtChars}
FormatPaths == NameParts \cup {n \o <<DOT>> \o e : n \in NameParts, e \in ExtParts}

Pad(str, n) == [k \in 1..n |-> IF k <= Len(str) THEN str[k] ELSE SPACE]

ScanBPB(count) == [BootBPB(1) EXCEPT !.root_entry_count = count]

\* the directory the format paths are looked up in; slot 3 lies beyond
\* root_entry_count
FormatDir ==
    <<File(Pad(<<65>>, NAME_LEN), Pad(<<>>, EXT_LEN), 1, 2),
      File(Pad(Run(NAME_LEN, 0, 0), NAME_LEN), Pad(Run(EXT_LEN, 0, 0), EXT_LEN), 1, 2)>>
    \o [k \in 1..(MaxEntries - 1) |-> File(Pad(<<66>>, NAME_LEN), Pad(<<>>, EXT_LEN), 1, 2)]

\* "AB.A", "AA.A" and "AB"
ScanPaths == {<<65, 66, DOT, 65>>, <<65, 65, DOT, 65>>, <<65, 66>>}

ScanEntries ==
    {File(Pad(<<65, 66>>, NAME_LEN), Pad(<<65>>, EXT_LEN), 1, 2),
     Entry(Pad(<<65, 66>>, NAME_LEN), Pad(<<65>>, EXT_LEN), ATTR_LONG_FILENAME, 1, 2),
     File(Pad(<<ENTRY_EMPTY, 66>>, NAME_LEN), Pad(<<65>>, EXT_LEN), 1, 2),
     File(Pad(<<ENTRY_DELETED, 66>>, NAME_LEN), Pad(<<65>>, EXT_LEN), 1, 2),
     File(Pad(<<65, 65>>, NAME_LEN), Pad(<<65>>, EXT_LEN), 1, 2),
     File(Pad(<<65, 66>>, NAME_LEN), Pad(<<>>, EXT_LEN), 1, 2)}

ScanDirs == [1..(MaxEntries + 1) -> ScanEntries]

Init ==
    /\ debug_h \in DebugHeaders
    /\ \/ /\ sig = GoodSignature
          /\ path = KERNEL_BIN
          /\ bpb \in BootBPBs
          /\ fat \in BootFats
          /\ dir \in BootDirs
       \/ /\ sig \in BadSignatures
          /\ path = KERNEL_BIN
          /\ bpb = BootBPB(1)
          /\ fat = DefaultFat
          /\ dir \in BootDirs
       \/ /\ sig = GoodSignature
          /\ path \in FormatPaths
          /\ bpb = ScanBPB(2)
          /\ fat = DefaultFat
          /\ dir = FormatDir
       \/ /\ sig = GoodSignature
          /\ path \in ScanPaths
          /\ bpb \in {ScanBPB(n) : n \in 0..MaxEntries}
          /\ fat = DefaultFat
          /\ dir \in ScanDirs
    /\ Reset
    /\ GeomIdle
    /\ ScreenIdle

Spec == Init /\ [][Next]_vars

----------------------------------------------------------------------------
(* What the claims speak of, stated on the image and not through the reader *)

\* search_file has returned
Searched == pc \notin {"init_fs", "load_file"} /\ halt_at # "init_fs"

\* load_file has returned
Returned == pc \in {"entry_check", "booted"} \/ (pc = "halted" /\ halt_at = "entry")

\* the processor spins in an assertion reached from load_file
HaltedInLoad ==
    pc = "halted" /\ halt_at \in {"read_raw_data", "get_cluster_value", "bad_cluster"}

FirstDot(p) ==
    IF \E k \in 1..Len(p) : p[k] = DOT
    THEN CHOOSE k \in 1..Len(p) : p[k] = DOT /\ \A j \in 1..(k - 1) : p[j] # DOT
    ELSE Len(p) + 1

NamePart(p) == SubSeq(p, 1, FirstDot(p) - 1)
ExtPart(p) == SubSeq(p, FirstDot(p) + 1, Len(p))
HasSlash(p) == \E k \in 1..Len(p) : p[k] = 47

\* the path is representable in the 8.3 format
Parses(p) == ~HasSlash(p) /\ Len(NamePart(p)) <= 8 /\ Len(ExtPart(p)) <= 3

PaddedTo(str, n) == [k \in 1..n |-> IF k <= Len(str) THEN str[k] ELSE 32]

\* slot i holds a live entry, no long-filename fragment, with the path's name
Matches(i, p) ==
    /\ dir[i].name[1] # 0
    /\ dir[i].name[1] # 229
    /\ dir[i].attributes # 15
    /\ dir[i].name = PaddedTo(NamePart(p), 8)
    /\ dir[i].ext = PaddedTo(ExtPart(p), 3)

\* the slot the scan is to return (0: not found)
ExpectedEntry(p) ==
    IF \E i \in 1..bpb.root_entry_count : Matches(i, p)
    THEN CHOOSE i \in 1..bpb.root_entry_count :
            Matches(i, p) /\ \A j \in 1..(i - 1) : ~Matches(j, p)
    ELSE 0

DestUntouched == \A k \in DOMAIN dest : dest[k] = Untouched

BytesPerCluster == bpb.bytes_per_sector * bpb.sectors_per_cluster

ClustersFor(s) == (s + BytesPerCluster - 1) \div BytesPerCluster

\* the FAT chain from c has exactly n clusters and then ends
RECURSIVE ChainOfLength(_, _)
ChainOfLength(c, n) ==
    /\ n >= 1
    /\ c \in DOMAIN fat
    /\ IF n = 1
       THEN fat[c] >= 65528
       ELSE fat[c] >= 2 /\ fat[c] < 65527 /\ ChainOfLength(fat[c], n - 1)

\* the k-th cluster (from 0) of the chain from c
RECURSIVE ChainCluster(_, _)
ChainCluster(c, k) == IF k = 0 THEN c ELSE ChainCluster(fat[c], k - 1)

\* the offset in the image of byte k of the file whose chain starts at c
FileByteOffset(c, k) ==
    LET cl == ChainCluster(c, k \div BytesPerCluster)
    IN  (bpb.reserved_sector_count + bpb.fat_count * bpb.sectors_per_fat)
            * bpb.bytes_per_sector
        + bpb.root_entry_count * 32
        + (cl - 2) * BytesPerCluster
        + (k % BytesPerCluster)

\* the found entry is a file of s > 0 bytes with a chain of ceil(s / cluster_size) clusters
WellFormedFile ==
    /\ found # 0
    /\ dir[found].file_size > 0
    /\ ChainOfLength(dir[found].cluster_index, ClustersFor(dir[found].file_size))

----------------------------------------------------------------------------
(* C1 *)

\* C1: for a found file of s > 0 bytes whose FAT chain has exactly
\* ceil(s / cluster_size) clusters, contiguous or not, load_file returns true
\* with the s destination bytes equal to the chain's clusters in chain order,
\* and while reading the current cluster is the one the chain names.
C1_RoundTrip ==
    WellFormedFile =>
        /\ (pc = "read_loop" /\ read_size < size) =>
                cluster_index =
                    ChainCluster(dir[found].cluster_index, read_size \div BytesPerCluster)
        /\ Returned =>
                /\ ret = TRUE
                /\ \A k \in 0..(dir[found].file_size - 1) :
                        dest[k] = FileByteOffset(dir[found].cluster_index, k)

----------------------------------------------------------------------------
(* C2 *)

\* C2: during read(start_cluster, destination, size), whatever the FAT holds,
\* at most size bytes are counted as copied and no byte is written outside
\* [destination, destination + size).
C2_NeverPastSize ==
    /\ read_size <= size
    /\ \A k \in DOMAIN dest : dest[k] # Untouched => k < size

----------------------------------------------------------------------------
(* C3 *)

\* C3: for a path in 8.3 form the scan returns the lowest slot below
\* root_entry_count that is live, is no long-filename fragment and holds the
\* space-padded name and extension, or null when there is none; no slot at or
\* beyond root_entry_count is read.
C3_ScanFindsFirstMatch ==
    (Searched /\ Parses(path)) =>
        /\ found = ExpectedEntry(path)
        /\ inspected \subseteq 1..bpb.root_entry_count
        /\ found # 0 => dir[found].attributes # 15

\* a long-filename fragment with the very name of the path is stepped over
C3_Witness ==
    /\ Searched
    /\ Parses(path)
    /\ found = 2
    /\ dir[1].attributes = 15
    /\ dir[1].name = dir[2].name
    /\ dir[1].ext = dir[2].ext

----------------------------------------------------------------------------
(* C4 *)

\* C4: for a path with a '/' anywhere, a name part longer than 8 or an
\* extension part longer than 3, load_file returns false; it reads no
\* directory slot, copies no byte and does not halt.
C4_UnrepresentablePathFails ==
    (Searched /\ (HasSlash(path) \/ Len(NamePart(path)) > 8 \/ Len(ExtPart(path)) > 3)) =>
        /\ Returned
        /\ ret = FALSE
        /\ found = 0
        /\ inspected = {}
        /\ DestUntouched

\* load_file has returned for "AAAAAAAA/", the '/' being the ninth character
C4_Witness ==
    /\ pc = "entry_check"
    /\ Len(path) = 9
    /\ path[9] = 47
    /\ \A k \in 1..8 : path[k] = 65

----------------------------------------------------------------------------
(* C5 *)

SignatureOk == sig[1] = 85 /\ sig[2] = 170

\* C5: with a signature other than 0x55, 0xAA init_fs halts for good, and no
\* directory lookup, FAT access or copy ever happens; with 0x55, 0xAA init_fs
\* returns and load_file is called next.
C5_SignatureGate ==
    /\ [](~SignatureOk =>
            /\ pc \in {"init_fs", "halted"}
            /\ pc = "halted" => halt_at = "init_fs" /\ msg
            /\ inspected = {}
            /\ found = 0
            /\ cluster_value = 0
            /\ DestUntouched)
    /\ [](SignatureOk => halt_at # "init_fs")
    /\ [][/\ pc = "init_fs" =>
                pc' = (IF SignatureOk THEN "load_file" ELSE "halted")
          /\ pc = "halted" => UNCHANGED vars]_vars

\* init_fs has halted on 0x55 followed by a wrong second byte
C5_Witness == pc = "halted" /\ halt_at = "init_fs" /\ sig[1] = 85 /\ sig[2] # 170

----------------------------------------------------------------------------
(* C6 *)

----------------------------------------------------------------------------
(* C8 *)

\* C8: once the file is found, load_file halts only on a contract violation:
\* a cluster index outside [2, 65535] or a bad-cluster marker; when every
\* asserted condition holds, execution passes the assertion.
C8_HaltOnlyOnViolation ==
    HaltedInLoad =>
        \/ ~(cluster_index >= 2 /\ cluster_index <= 65535)
        \/ cluster_value = 65527

----------------------------------------------------------------------------
(* C9 *)

\* C9: read_raw_data returns at least size, and exactly size when it stopped
\* on an end-of-chain value, the whole remainder being copied in one move from
\* the current cluster's data; load_file returns false for a found file only
\* when the count exceeds file_size.
C9_CountAtLeastSize ==
    /\ pc = "read_ret" =>
            /\ read_size >= size
            /\ cluster_value >= 65528 =>
                    /\ read_size = size
                    /\ \A k \in buffer..(size - 1) : dest[k] = data + (k - buffer)
    /\ (Returned /\ found # 0 /\ ~ret) => read_size > dir[found].file_size

\* the chain ended with more than one cluster's worth of bytes left
C9_Witness ==
    /\ pc = "read_ret"
    /\ cluster_value >= 65528
    /\ size - buffer > BytesPerCluster

----------------------------------------------------------------------------
(* get_data_offset on the cluster indices i and i + 1 *)

GeomBPBs ==
    [bytes_per_sector : {1, 512, 65535}, sectors_per_cluster : {1, 8, 255},
     reserved_sector_count : {1, 65535}, fat_count : {2, 255},
     sectors_per_fat : {9, 65535}, root_entry_count : {224, 65535}]

GeomIndices == {2, 3, 65534, 65535}

InitGeom ==
    /\ debug_h \in DebugHeaders
    /\ bpb \in GeomBPBs
    /\ g_i \in GeomIndices
    /\ g_first = "none"
    /\ g_second = "none"
    /\ pc = "geom_first"
    /\ sig = GoodSignature
    /\ path = KERNEL_BIN
    /\ fat = DefaultFat
    /\ dir = FormatDir
    /\ cluster_index = 0 /\ data = 0 /\ buffer = 0 /\ read_size = 0 /\ size = 0
    /\ cluster_value = 0 /\ dest = [k \in DestOffsets |-> Untouched]
    /\ found = 0 /\ inspected = {} /\ ret = FALSE /\ halt_at = "none" /\ msg = FALSE
    /\ ScreenIdle

GeomIndex == IF pc = "geom_first" THEN g_i ELSE g_i + 1

\* get_data_offset: the processor spins in VALIDATE_CLUSTER_INDEX
GeomOffsetHalt ==
    /\ pc \in {"geom_first", "geom_second"}
    /\ AssertHalts(ValidClusterIndex(GeomIndex))
    /\ Halt("get_data_offset", ValidClusterIndex(GeomIndex))
    /\ UNCHANGED <<debug_h, sig, bpb, fat, dir, path, cluster_index, data, buffer,
                   read_size, size, cluster_value, dest, found, inspected, ret>>
    /\ UNCHANGED <<geomvars, screenvars>>

\* get_data_offset(bpb, i) returns
GeomFirst ==
    /\ pc = "geom_first"
    /\ ~AssertHalts(ValidClusterIndex(g_i))
    /\ g_first' = get_data_offset(bpb, g_i)
    /\ pc' = "geom_second"
    /\ UNCHANGED <<debug_h, sig, bpb, fat, dir, path, cluster_index, data, buffer,
                   read_size, size, cluster_value, dest, found, inspected, ret,
                   halt_at, msg>>
    /\ UNCHANGED <<g_i, g_second, screenvars>>

\* get_data_offset(bpb, i + 1) returns
GeomSecond ==
    /\ pc = "geom_second"
    /\ ~AssertHalts(ValidClusterIndex(g_i + 1))
    /\ g_second' = get_data_offset(bpb, g_i + 1)
    /\ pc' = "geom_done"
    /\ UNCHANGED <<debug_h, sig, bpb, fat, dir, path, cluster_index, data, buffer,
                   read_size, size, cluster_value, dest, found, inspected, ret,
                   halt_at, msg>>
    /\ UNCHANGED <<g_i, g_first, screenvars>>

NextGeom == GeomOffsetHalt \/ GeomFirst \/ GeomSecond

SpecGeom == InitGeom /\ [][NextGeom]_vars

----------------------------------------------------------------------------
(* C7 *)

\* C7: for every BPB and every i in [2, 65535], get_data_offset(bpb, i) and
\* get_data_offset(bpb, i + 1) are computed without halting and differ, as
\* 32-bit unsigned values, by bytes_per_sector * sectors_per_cluster.
C7_ConsecutiveOffsets ==
    /\ pc # "halted"
    /\ pc = "geom_done" =>
            LET cs == bpb.bytes_per_sector * bpb.sectors_per_cluster
            IN  Sub32(g_second, g_first) = <<cs \div 65536, cs % 65536>>

----------------------------------------------------------------------------
(* The text screen: print.c *)

\* printf: the loop over a format that holds no conversion specifier
RECURSIVE FormatLoop(_, _, _)
FormatLoop(format, i, buf) ==
    IF At(format, i) = NUL
    THEN buf
    ELSE IF At(format, i) # PERCENT
         THEN FormatLoop(format, i + 1, Append(buf, At(format, i)))
         ELSE FormatLoop(format, i + 1, Append(buf, PERCENT))

\* the scroll test with > for >=
NeedsScrollAbove(r) == r > ROWS

NeedsScroll(r) == r >= ROWS

CellIndex(c, r) == c * 2 + r * LINE_SIZE

\* write_screen: the loop from character i (from 1) of buf, on
\* [col, row, cells, rows]
RECURSIVE WriteLoop(_, _, _)
WriteLoop(buf, i, st) ==
    IF i > Len(buf)
    THEN st
    ELSE IF buf[i] = BACKSPACE /\ st.col = 0 /\ st.row = 0
         THEN WriteLoop(buf, i + 1, st)
         ELSE LET moved ==
                      IF buf[i] = NEWLINE
                      THEN [st EXCEPT !.col = 0, !.row = st.row + 1]
                      ELSE IF buf[i] = BACKSPACE
                      THEN LET c == (IF st.col = 0 THEN COLUMNS ELSE st.col) - 1
                               r == IF st.col = 0 THEN st.row - 1 ELSE st.row
                           IN  [st EXCEPT !.col = c, !.row = r,
                                          !.cells = st.cells \cup
                                              {CellIndex(c, r), CellIndex(c, r) + 1}]
                      ELSE LET wrap == st.col + 1 >= COLUMNS
                           IN  [st EXCEPT !.col = IF wrap THEN 0 ELSE st.col + 1,
                                          !.row = IF wrap THEN st.row + 1 ELSE st.row,
                                          !.cells = st.cells \cup
                                              {CellIndex(st.col, st.row),
                                               CellIndex(st.col, st.row) + 1}]
                  scrolled ==
                      IF NeedsScroll(moved.row)
                      THEN [moved EXCEPT !.row = moved.row - 1]
                      ELSE moved
              IN  WriteLoop(buf, i + 1,
                            [scrolled EXCEPT !.rows = scrolled.rows \cup
                                                 {<<moved.row, scrolled.row>>}])

Formats ==
    UNION {[1..n -> {NEWLINE, BACKSPACE, PERCENT, 97}] : n \in 0..MaxFormat}

\* printf(format): format the buffer, then write_screen
Printf ==
    /\ pc = "screen"
    /\ \E format \in Formats :
          LET st == WriteLoop(FormatLoop(format, 0, <<>>), 1,
                              [col |-> col, row |-> row, cells |-> {}, rows |-> {}])
          IN  /\ col' = st.col
              /\ row' = st.row
              /\ cells' = st.cells
              /\ rows_seen' = st.rows
    /\ UNCHANGED <<fsvars, geomvars>>

\* the indices the two loops of clear_screen write
ClearedCells ==
    UNION {{CellIndex(c, r), CellIndex(c, r) + 1} :
              c \in 0..(COLUMNS - 1), r \in 0..(ROWS - 1)}

\* clear_screen
ClearScreen ==
    /\ pc = "screen"
    /\ cells' = ClearedCells
    /\ rows_seen' = {}
    /\ col' = 0
    /\ row' = 0
    /\ UNCHANGED <<fsvars, geomvars>>

InitScreen ==
    /\ ScreenIdle
    /\ pc = "screen"
    /\ debug_h = TopDebugH
    /\ sig = GoodSignature
    /\ path = KERNEL_BIN
    /\ bpb = BootBPB(1)
    /\ fat = DefaultFat
    /\ dir = FormatDir
    /\ cluster_index = 0 /\ data = 0 /\ buffer = 0 /\ read_size = 0 /\ size = 0
    /\ cluster_value = 0 /\ dest = [k \in DestOffsets |-> Untouched]
    /\ found = 0 /\ inspected = {} /\ ret = FALSE /\ halt_at = "none" /\ msg = FALSE
    /\ GeomIdle

NextScreen == Printf \/ ClearScreen

SpecScreen == InitScreen /\ [][NextScreen]_vars

----------------------------------------------------------------------------
(* C10 *)

\* C10: from (col, row) = (0, 1), after any printf and clear_screen calls the
\* cursor satisfies 0 <= col < 80 and 0 <= row < 25, every cell written lies
\* in the 80x25 buffer (indices 0..3999), and a row of 25 is always brought
\* back to 24 by one scroll.
C10_CursorOnScreen ==
    /\ col >= 0 /\ col < 80
    /\ row >= 0 /\ row < 25
    /\ \A c \in cells : c >= 0 /\ c <= 3999
    /\ \A p \in rows_seen :
          /\ p[1] <= 25
          /\ p[1] = 25 => p[2] = 24
          /\ p[1] < 25 => p[2] = p[1]

\* the last call wrote the last cell of the screen and scrolled
C10_Witness == 3999 \in cells /\ <<25, 24>> \in rows_seen /\ col = 0 /\ row = 24

====
